---------------------------- MODULE Spec2Model ----------------------------
(***************************************************************************)
(* Continuous, back-adjusted futures series (roll_functions.py and         *)
(* generic_roll.py): contract annotation, generic-length and near-roll     *)
(* selection, and the additive back-adjustment.                            *)
(*                                                                         *)
(* Abstractions.  A timestamp is a calendar day [year, month, day] (one    *)
(* daily bar per contract and day, index in the exchange's timezone, so    *)
(* comparing timestamps is comparing days).  A symbol is the sequence of   *)
(* its characters.  Prices are integers (ticks), so sums are exact.        *)
(* A table is a sequence of rows in index order.                           *)
(***************************************************************************)
EXTENDS Integers, Sequences, FiniteSets, TLC

VARIABLES
    pc,      \* position of the run
    df,      \* the raw input table
    opt,     \* the options of the run: near_roll, DAYS_BEFORE_EXPIRY, length
    fdf,     \* the annotated table combine_features returned
    ndf,     \* the table generic_roll / create_rolled_series / near_roll returned
    rdf,     \* the back-adjustment applied once more to ndf
    exc,     \* the exception that ended the run, or "none"
    arg,     \* argument of a single function call (function-level specifications)
    ret      \* its return value

vars == <<pc, df, opt, fdf, ndf, rdf, exc, arg, ret>>

None == <<>>

----------------------------------------------------------------------------
(* Bounds of the model *)

\* the longest input table
MaxRows == 6
\* the largest target length given to generic_roll
MaxLength == 1
\* bar years the contract-year decoding is tried on
MinYear == 2015
MaxYear == 2034
\* largest DAYS_BEFORE_EXPIRY the roll-date function is tried on
MaxOffset == 6
\* contract years the roll-date function is tried on
MinRollYear == 2023
MaxRollYear == 2024

----------------------------------------------------------------------------
(* The proleptic Gregorian calendar behind Timestamp arithmetic *)

IsLeap(y) == (y % 4 = 0) /\ ((y % 100 # 0) \/ (y % 400 = 0))

DaysInMonth(y, m) ==
    IF m = 2 THEN (IF IsLeap(y) THEN 29 ELSE 28)
    ELSE IF m \in {4, 6, 9, 11} THEN 30 ELSE 31

DaysBeforeMonthSeq == <<0, 31, 59, 90, 120, 151, 181, 212, 243, 273, 304, 334>>

DaysBeforeMonth(y, m) ==
    DaysBeforeMonthSeq[m] + (IF m > 2 /\ IsLeap(y) THEN 1 ELSE 0)

DaysBeforeYear(y) ==
    LET p == y - 1 IN p * 365 + (p \div 4) - (p \div 100) + (p \div 400)

\* day number of a timestamp (day 1 is 0001-01-01, a Monday)
Ordinal(ts) == DaysBeforeYear(ts.year) + DaysBeforeMonth(ts.year, ts.month) + ts.day

\* the timestamp of a day number
FromOrdinal(o) ==
    LET n0   == o - 1
        n400 == n0 \div 146097
        r400 == n0 % 146097
        n100 == r400 \div 36524
        r100 == r400 % 36524
        n4   == r100 \div 1461
        r4   == r100 % 1461
        n1   == r4 \div 365
        n    == r4 % 365
        y    == n400 * 400 + 1 + n100 * 100 + n4 * 4 + n1
    IN  IF n1 = 4 \/ n100 = 4
        THEN [year |-> y - 1, month |-> 12, day |-> 31]
        ELSE LET m0 == (n + 50) \div 32
                 p0 == DaysBeforeMonth(y, m0)
                 m  == IF p0 > n THEN m0 - 1 ELSE m0
                 p  == IF p0 > n THEN p0 - DaysInMonth(y, m) ELSE p0
             IN  [year |-> y, month |-> m, day |-> n - p + 1]

\* Timestamp.weekday(): Monday = 0 ... Sunday = 6
weekday(ts) == (Ordinal(ts) + 6) % 7

\* ts - pd.DateOffset(days = k), ts - pd.Timedelta(days = k)
MinusDays(ts, k) == FromOrdinal(Ordinal(ts) - k)

Before(a, b) == Ordinal(a) < Ordinal(b)

Date(y, m, d) == [year |-> y, month |-> m, day |-> d]

----------------------------------------------------------------------------
(* Symbol decoding *)

FUTURE_MONTH_MAP ==
    [c \in {"F", "G", "H", "J", "K", "M", "N", "Q", "U", "V", "X", "Z"} |->
        CASE c = "F" -> 1  [] c = "G" -> 2  [] c = "H" -> 3  [] c = "J" -> 4
          [] c = "K" -> 5  [] c = "M" -> 6  [] c = "N" -> 7  [] c = "Q" -> 8
          [] c = "U" -> 9  [] c = "V" -> 10 [] c = "X" -> 11 [] c = "Z" -> 12]

Digits == <<"0", "1", "2", "3", "4", "5", "6", "7", "8", "9">>

\* int(c) of a one-character string holding a decimal digit
int(c) == (CHOOSE i \in 1..10 : Digits[i] = c) - 1

\* math.floor(y / 10) and math.ceil(y / 10) of a positive year
floor10(y) == y \div 10
ceil10(y) == (y + 9) \div 10

\* "<=" in place of "<": the digit of the bar's own year goes to the next decade
get_contract_year_le(row) ==
    LET contract_year_first_digit == int(row.symbol[4])
        curr_year == row.name.year
    IN  IF contract_year_first_digit <= curr_year % 10
        THEN ceil10(curr_year) * 10 + contract_year_first_digit
        ELSE floor10(curr_year) * 10 + contract_year_first_digit

\* the decade is not rounded: the digit is added to the bar's year
get_contract_year_noround(row) ==
    LET contract_year_first_digit == int(row.symbol[4])
        curr_year == row.name.year
    IN  IF contract_year_first_digit < curr_year % 10
        THEN ceil10(curr_year) * 10 + contract_year_first_digit
        ELSE curr_year + contract_year_first_digit

get_contract_year(row) ==
    LET contract_year_first_digit == int(row.symbol[4])
        curr_year == row.name.year
    IN  IF contract_year_first_digit < curr_year % 10
        THEN ceil10(curr_year) * 10 + contract_year_first_digit
        ELSE floor10(curr_year) * 10 + contract_year_first_digit

Ok(v) == [ok |-> TRUE, value |-> v]
Raise(e) == [ok |-> FALSE, exc |-> e]

\* a lookup that falls back to a default (dict.get(c, 0)) instead of raising
month_code_default(c) ==
    IF c \in DOMAIN FUTURE_MONTH_MAP THEN Ok(FUTURE_MONTH_MAP[c]) ELSE Ok(0)

\* FUTURE_MONTH_MAP[c]: the month, or KeyError when c is no key of the dict
month_code(c) ==
    IF c \in DOMAIN FUTURE_MONTH_MAP THEN Ok(FUTURE_MONTH_MAP[c]) ELSE Raise("KeyError")

get_expiry_length(row) ==
    LET month == month_code(row.symbol[3])
        year == row.contract_year
    IN  IF month.ok
        THEN Ok((year - row.name.year) * 12 + month.value - row.name.month)
        ELSE month

\* pd.bdate_range(start, end): the Monday-to-Friday days from start to end, ascending
bdate_range(start, end) ==
    LET first == Ordinal(start)
        days == [i \in 1..(Ordinal(end) - first + 1) |-> first + i - 1]
        is_bday(o) == (o + 6) % 7 < 5
        kept == SelectSeq(days, is_bday)
    IN  [i \in 1..Len(kept) |-> FromOrdinal(kept[i])]

get_near_roll_date(row, DAYS_BEFORE_EXPIRY) ==
    LET year == row.contract_year
        month == row.contract_month
        start_of_month == Date(year, month, 1)
        end_of_month == Date(year, month, DaysInMonth(year, month))
        bdays == bdate_range(start_of_month, end_of_month)
        roll_date == MinusDays(bdays[Len(bdays) - 2], DAYS_BEFORE_EXPIRY)
    IN  IF weekday(roll_date) = 5
        THEN MinusDays(roll_date, 1)
        ELSE roll_date

----------------------------------------------------------------------------
(* Function-level specifications: one call of a pure function *)

Idle == /\ df = None /\ opt = None /\ fdf = None /\ ndf = None /\ rdf = None
        /\ exc = "none"

YearArgs ==
    { [symbol |-> <<"G", "C", "Z", Digits[i]>>, name |-> Date(y, 6, 15)] :
        i \in 1..10, y \in MinYear..MaxYear }

InitYear == /\ pc = "call" /\ arg \in YearArgs /\ ret = None /\ Idle

CallGetContractYear ==
    /\ pc = "call"
    /\ arg \in YearArgs
    /\ ret' = get_contract_year(arg)
    /\ pc' = "return"
    /\ UNCHANGED <<df, opt, fdf, ndf, rdf, exc, arg>>

NextYear == CallGetContractYear

SpecYear == InitYear /\ [][NextYear]_vars

RollArgs ==
    { [row |-> [contract_year |-> y, contract_month |-> m], DAYS_BEFORE_EXPIRY |-> k] :
        y \in MinRollYear..MaxRollYear, m \in 1..12, k \in 0..MaxOffset }

InitRollDate == /\ pc = "call" /\ arg \in RollArgs /\ ret = None /\ Idle

CallGetNearRollDate ==
    /\ pc = "call"
    /\ arg \in RollArgs
    /\ ret' = get_near_roll_date(arg.row, arg.DAYS_BEFORE_EXPIRY)
    /\ pc' = "return"
    /\ UNCHANGED <<df, opt, fdf, ndf, rdf, exc, arg>>

NextRollDate == CallGetNearRollDate

SpecRollDate == InitRollDate /\ [][NextRollDate]_vars

----------------------------------------------------------------------------
(* Tables *)

\* a missing value (NaN, NaT) is the empty tuple, a present value v is <<v>>
NaN == <<>>
Num(v) == <<v>>
isnan(x) == x = NaN

\* np.roll(col, -1) in place of shift(-1): the last row gets the first row's value
shift_neg1_wrap(col) ==
    [i \in 1..Len(col) |-> IF i < Len(col) THEN Num(col[i + 1]) ELSE Num(col[1])]

\* col.shift(-1): every value moves one row up, the last row gets NaN
shift_neg1(col) ==
    [i \in 1..Len(col) |-> IF i < Len(col) THEN Num(col[i + 1]) ELSE NaN]

\* row a sorts no later than row b by ['date', 'expiry_length']
LeDateLength(a, b) ==
    \/ Ordinal(a.date) < Ordinal(b.date)
    \/ Ordinal(a.date) = Ordinal(b.date) /\ a.expiry_length <= b.expiry_length

\* sort_values(by = ['date', 'expiry_length']): a stable sort (insertion sort)
RECURSIVE InsertDateLength(_, _)
InsertDateLength(t, r) ==
    IF t = <<>> THEN <<r>>
    ELSE LET l == t[Len(t)]
         IN  IF LeDateLength(l, r)
             THEN Append(t, r)
             ELSE Append(InsertDateLength(SubSeq(t, 1, Len(t) - 1), r), l)

RECURSIVE sort_values(_)
sort_values(t) ==
    IF t = <<>> THEN <<>>
    ELSE InsertDateLength(sort_values(SubSeq(t, 1, Len(t) - 1)), t[Len(t)])

\* sort_index(): by timestamp; rows of one timestamp keep their order
RECURSIVE InsertIndex(_, _)
InsertIndex(t, r) ==
    IF t = <<>> THEN <<r>>
    ELSE LET l == t[Len(t)]
         IN  IF Ordinal(l.name) <= Ordinal(r.name)
             THEN Append(t, r)
             ELSE Append(InsertIndex(SubSeq(t, 1, Len(t) - 1), r), l)

RECURSIVE sort_index(_)
sort_index(t) ==
    IF t = <<>> THEN <<>>
    ELSE InsertIndex(sort_index(SubSeq(t, 1, Len(t) - 1)), t[Len(t)])

\* drop_duplicates(subset = 'date', keep = 'last')
drop_duplicates_last(t) ==
    LET Keep(i) == \A j \in (i + 1)..Len(t) : t[j].date # t[i].date
        idx == {i \in 1..Len(t) : Keep(i)}
        Nth[n \in 1..Cardinality(idx)] ==
            CHOOSE i \in idx : Cardinality({j \in idx : j < i}) = n - 1
    IN  [n \in 1..Cardinality(idx) |-> t[Nth[n]]]

\* drop_duplicates(subset = 'date', keep = 'first')
drop_duplicates(t) ==
    LET Keep(i) == \A j \in 1..(i - 1) : t[j].date # t[i].date
        idx == {i \in 1..Len(t) : Keep(i)}
        Nth[n \in 1..Cardinality(idx)] ==
            CHOOSE i \in idx : Cardinality({j \in idx : j < i}) = n - 1
    IN  [n \in 1..Cardinality(idx) |-> t[Nth[n]]]

----------------------------------------------------------------------------
(* combine_features *)

combine_features(d, near_roll_flag, DAYS_BEFORE_EXPIRY) ==
    LET single_contract_filter(row) == Len(row.symbol) = 4
        f0 == SelectSeq(d, single_contract_filter)
        f1 == [i \in 1..Len(f0) |-> f0[i] @@ [contract_year |-> get_contract_year(f0[i])]]
        months == [i \in 1..Len(f1) |-> month_code(f1[i].symbol[3])]
        f2 == [i \in 1..Len(f1) |-> f1[i] @@ [contract_month |-> months[i].value]]
        lengths == [i \in 1..Len(f2) |-> get_expiry_length(f2[i])]
        f3 == [i \in 1..Len(f2) |-> f2[i] @@ [expiry_length |-> lengths[i].value]]
        f4 == [i \in 1..Len(f3) |-> f3[i] @@
                 [contract_roll_date |-> get_near_roll_date(f3[i], DAYS_BEFORE_EXPIRY)]]
    IN  IF \E i \in 1..Len(f1) : ~months[i].ok
        THEN Raise(months[CHOOSE i \in 1..Len(f1) :
                            ~months[i].ok /\ \A j \in 1..(i - 1) : months[j].ok].exc)
        ELSE IF \E i \in 1..Len(f2) : ~lengths[i].ok
        THEN Raise(lengths[CHOOSE i \in 1..Len(f2) :
                            ~lengths[i].ok /\ \A j \in 1..(i - 1) : lengths[j].ok].exc)
        ELSE IF near_roll_flag THEN Ok(f4) ELSE Ok(f3)

----------------------------------------------------------------------------
(* Back-adjustment *)

\* col.cumsum() without the two reversals: a running total from the first row on
forward_cumsum(col) ==
    LET tot[i \in 1..Len(col)] == col[i] + (IF i > 1 THEN tot[i - 1] ELSE 0)
    IN  [i \in 1..Len(col) |-> tot[i]]

\* col.iloc[::-1].cumsum().iloc[::-1]: the sum of the values at or after each row
reverse_cumsum(col) ==
    LET tot[i \in 1..Len(col)] == col[i] + (IF i < Len(col) THEN tot[i + 1] ELSE 0)
    IN  [i \in 1..Len(col) |-> tot[i]]

\* the gap taken with the wrong sign: close - open.shift(-1)
adjustment_of_flipped(t, is_roll_day) ==
    LET next_open == shift_neg1([i \in 1..Len(t) |-> t[i].open])
        raw == [i \in 1..Len(t) |->
                  IF is_roll_day[i]
                  THEN (IF isnan(next_open[i]) THEN NaN
                        ELSE Num(t[i].close - next_open[i][1]))
                  ELSE Num(0)]
    IN  [i \in 1..Len(t) |-> IF isnan(raw[i]) THEN 0 ELSE raw[i][1]]

\* np.where(is_roll_day, open.shift(-1) - close, 0), then NaN replaced by 0
adjustment_of(t, is_roll_day) ==
    LET next_open == shift_neg1([i \in 1..Len(t) |-> t[i].open])
        raw == [i \in 1..Len(t) |->
                  IF is_roll_day[i]
                  THEN (IF isnan(next_open[i]) THEN NaN
                        ELSE Num(next_open[i][1] - t[i].close))
                  ELSE Num(0)]
    IN  [i \in 1..Len(t) |-> IF isnan(raw[i]) THEN 0 ELSE raw[i][1]]

\* ndf['adjustment'] = adjustment; ndf[cols_to_adjust].add(total_adjustment, axis = 0)
add_adjustment(t, adjustment, total_adjustment) ==
    [i \in 1..Len(t) |->
        [adjustment |-> adjustment[i],
         open  |-> t[i].open + total_adjustment[i],
         high  |-> t[i].high + total_adjustment[i],
         low   |-> t[i].low + total_adjustment[i],
         close |-> t[i].close + total_adjustment[i]] @@ t[i]]

\* the back-adjustment of generic_roll and create_rolled_series
back_adjust(t) ==
    LET next_symbol == shift_neg1([i \in 1..Len(t) |-> t[i].symbol])
        is_roll_day == [i \in 1..Len(t) |-> Num(t[i].symbol) # next_symbol[i]]
        adjustment == adjustment_of(t, is_roll_day)
        total_adjustment == reverse_cumsum(adjustment)
    IN  add_adjustment(t, adjustment, total_adjustment)

----------------------------------------------------------------------------
(* The selectors *)

\* set_index('date'): the date column becomes the index
set_index_date(t) ==
    [i \in 1..Len(t) |->
        [f \in DOMAIN t[i] \ {"date"} |-> IF f = "name" THEN t[i].date ELSE t[i][f]]]

\* the daily selection of generic_roll and create_rolled_series
select_daily(d, length) ==
    LET isin(row) == row.expiry_length \in {length, length + 1}
        candidates == SelectSeq(d, isin)
        dated == [i \in 1..Len(candidates) |-> [date |-> candidates[i].name] @@ candidates[i]]
    IN  set_index_date(drop_duplicates(sort_values(dated)))

generic_roll(d, length) == back_adjust(select_daily(d, length))

create_rolled_series(d, length) == back_adjust(select_daily(d, length))

\* the front-month rows near_roll keeps
adj_frdf_of(d) ==
    LET front(row) == row.expiry_length = 0
        pre_roll(row) == Before(row.name, row.contract_roll_date)
    IN  SelectSeq(SelectSeq(d, front), pre_roll)

\* the second-month rows near_roll keeps, with the front month's roll date
adj_sdf_of(d) ==
    LET front(row) == row.expiry_length = 0
        second(row) == row.expiry_length = 1
        frdf == SelectSeq(d, front)
        sdf == SelectSeq(d, second)
        common_idx == {frdf[i].name : i \in 1..Len(frdf)} \cap {sdf[i].name : i \in 1..Len(sdf)}
        fm(ts) == frdf[CHOOSE i \in 1..Len(frdf) : frdf[i].name = ts].contract_roll_date
        aligned == [i \in 1..Len(sdf) |->
                      [fm_roll_date |-> IF sdf[i].name \in common_idx
                                        THEN Num(fm(sdf[i].name)) ELSE NaN] @@ sdf[i]]
        post_roll(row) == /\ ~isnan(row.fm_roll_date)
                          /\ ~Before(row.name, row.fm_roll_date[1])
    IN  SelectSeq(aligned, post_roll)

near_roll(d) ==
    LET adj_frdf == adj_frdf_of(d)
        adj_sdf == adj_sdf_of(d)
        concat == [i \in 1..Len(adj_frdf) |-> [fm_roll_date |-> NaN] @@ adj_frdf[i]] \o adj_sdf
        n0 == sort_index(concat)
        is_roll_day == [i \in 1..Len(n0) |-> n0[i].name = n0[i].contract_roll_date]
        adjustment == adjustment_of(n0, is_roll_day)
        shifted == shift_neg1(reverse_cumsum(adjustment))
        total_adjustment == [i \in 1..Len(n0) |->
                               IF isnan(shifted[i]) THEN 0 ELSE shifted[i][1]]
    IN  add_adjustment(n0, adjustment, total_adjustment)

----------------------------------------------------------------------------
(* The pipeline: raw bars -> combine_features -> a selector -> re-adjustment *)

\* trading days of the input: around the November 2023 roll, and one in December
Days == <<Date(2023, 11, 22), Date(2023, 11, 24), Date(2023, 11, 27), Date(2023, 12, 1)>>

\* GCX3, GCZ3, GCF4; GCA3 has no valid month code; the last one is a spread
Symbols == << <<"G", "C", "X", "3">>, <<"G", "C", "Z", "3">>, <<"G", "C", "F", "4">>,
              <<"G", "C", "A", "3">>,
              <<"G", "C", "X", "3", "-", "G", "C", "Z", "3">> >>

\* the (day, symbol) pairs a table may hold, in index order: the three contracts on
\* every day, the undecodable symbol and the spread on the first day
Keys ==
    << <<1, 1>>, <<1, 2>>, <<1, 3>>, <<1, 4>>, <<1, 5>>,
       <<2, 1>>, <<2, 2>>, <<2, 3>>,
       <<3, 1>>, <<3, 2>>, <<3, 3>>,
       <<4, 1>>, <<4, 2>>, <<4, 3>> >>

PriceScenarios == {1, 2}

Max(a, b) == IF a >= b THEN a ELSE b
Min(a, b) == IF a <= b THEN a ELSE b

\* the bar of symbol si on day di under price scenario s
Bar(di, si, s) ==
    LET o == 100 + 10 * si + 3 * di * s
        c == o + 2 * s - di
    IN  [name |-> Days[di], symbol |-> Symbols[si],
         open |-> o, high |-> Max(o, c) + 1, low |-> Min(o, c) - 1, close |-> c]

\* the table holding the bars of the keys in K, in index order
TableOf(K, s) ==
    LET Nth[n \in 1..Cardinality(K)] ==
            CHOOSE i \in K : Cardinality({j \in K : j < i}) = n - 1
    IN  [n \in 1..Cardinality(K) |-> Bar(Keys[Nth[n]][1], Keys[Nth[n]][2], s)]

Tables ==
    { TableOf(K, s) :
        K \in {K \in SUBSET (1..Len(Keys)) : Cardinality(K) \in 1..MaxRows},
        s \in PriceScenarios }

\* the (near_roll, DAYS_BEFORE_EXPIRY) pairs combine_features is called with: the
\* defaults, the near-roll mode with the default offset and with a long one
Options == {<<FALSE, 3>>, <<TRUE, 3>>, <<TRUE, 30>>}

Init ==
    /\ pc = "loaded"
    /\ df \in Tables
    /\ opt = None /\ fdf = None /\ ndf = None /\ rdf = None
    /\ exc = "none"
    /\ arg = None /\ ret = None

CombineFeatures(near_roll_flag, DAYS_BEFORE_EXPIRY) ==
    /\ pc = "loaded"
    /\ LET r == combine_features(df, near_roll_flag, DAYS_BEFORE_EXPIRY)
       IN  IF r.ok
           THEN /\ fdf' = r.value
                /\ exc' = exc
                /\ pc' = "annotated"
           ELSE /\ fdf' = fdf
                /\ exc' = r.exc
                /\ pc' = "failed"
    /\ opt' = [near_roll |-> near_roll_flag, DAYS_BEFORE_EXPIRY |-> DAYS_BEFORE_EXPIRY]
    /\ UNCHANGED <<df, ndf, rdf, arg, ret>>

\* the generic selectors are driven as their scripts drive them: on a table
\* annotated without roll dates
GenericRoll(length) ==
    /\ pc = "annotated"
    /\ ~opt.near_roll
    /\ ndf' = generic_roll(fdf, length)
    /\ opt' = [policy |-> "generic_roll", length |-> length] @@ opt
    /\ pc' = "rolled"
    /\ UNCHANGED <<df, fdf, rdf, exc, arg, ret>>

CreateRolledSeries(length) ==
    /\ pc = "annotated"
    /\ ~opt.near_roll
    /\ ndf' = create_rolled_series(fdf, length)
    /\ opt' = [policy |-> "create_rolled_series", length |-> length] @@ opt
    /\ pc' = "rolled"
    /\ UNCHANGED <<df, fdf, rdf, exc, arg, ret>>

\* without the contract_roll_date column, frdf['contract_roll_date'] raises KeyError
NearRoll ==
    /\ pc = "annotated"
    /\ opt' = [policy |-> "near_roll"] @@ opt
    /\ IF opt.near_roll
       THEN /\ ndf' = near_roll(fdf)
            /\ exc' = exc
            /\ pc' = "rolled"
       ELSE /\ ndf' = ndf
            /\ exc' = "KeyError"
            /\ pc' = "failed"
    /\ UNCHANGED <<df, fdf, rdf, arg, ret>>

\* roll-day detection, adjustment and reverse cumulative sum of the generic policy,
\* applied to the series that policy returned
ReAdjust ==
    /\ pc = "rolled"
    /\ opt.policy \in {"generic_roll", "create_rolled_series"}
    /\ rdf' = back_adjust(ndf)
    /\ pc' = "readjusted"
    /\ UNCHANGED <<df, opt, fdf, ndf, exc, arg, ret>>

Next ==
    \/ \E o \in Options : CombineFeatures(o[1], o[2])
    \/ \E length \in 0..MaxLength : GenericRoll(length)
    \/ \E length \in 0..MaxLength : CreateRolledSeries(length)
    \/ NearRoll
    \/ ReAdjust

Spec == Init /\ [][Next]_vars

----------------------------------------------------------------------------
(* Properties *)

Rows(t) == 1..Len(t)
DatesOf(t) == {t[i].name : i \in Rows(t)}
Generic == pc \in {"rolled", "readjusted"}
              /\ opt.policy \in {"generic_roll", "create_rolled_series"}
NearRolled == pc = "rolled" /\ opt.policy = "near_roll"

\* the rows of the annotated table that are candidates of day d for target length n
Candidates(d, n) ==
    {k \in Rows(fdf) : fdf[k].name = d /\ fdf[k].expiry_length \in {n, n + 1}}

\* the annotated bar an output row was selected from
SourceOf(r) == fdf[CHOOSE k \in Rows(fdf) : fdf[k].name = r.name /\ fdf[k].symbol = r.symbol]

\* C1: the output of generic_roll and create_rolled_series has exactly one row for
\* each day with a bar of expiry length N or N+1 and no other row; the row is one of
\* the day's candidates and has the smallest expiry length among them.
C1_OneRowPerCandidateDayShortestLength ==
    Generic =>
        /\ DatesOf(ndf) = {fdf[k].name : k \in {k \in Rows(fdf) :
                              fdf[k].expiry_length \in {opt.length, opt.length + 1}}}
        /\ \A i, j \in Rows(ndf) : ndf[i].name = ndf[j].name => i = j
        /\ \A i \in Rows(ndf) :
              /\ \E k \in Candidates(ndf[i].name, opt.length) :
                    /\ fdf[k].symbol = ndf[i].symbol
                    /\ fdf[k].expiry_length = ndf[i].expiry_length
              /\ \A k \in Candidates(ndf[i].name, opt.length) :
                    ndf[i].expiry_length <= fdf[k].expiry_length

\* a day with bars of both lengths N and N+1, and a day with a bar of length N+1 only
C1_Witness ==
    /\ Generic
    /\ \E d \in DatesOf(ndf) :
          {fdf[k].expiry_length : k \in Candidates(d, opt.length)}
             = {opt.length, opt.length + 1}
    /\ \E i \in Rows(ndf) : ndf[i].expiry_length = opt.length + 1
    /\ \E k \in Rows(fdf) : fdf[k].expiry_length \notin {opt.length, opt.length + 1}

\* C2: in the output of generic_roll, at every roll day that has a next row the
\* adjusted close equals the adjusted open of the next row.
C2_GenericContinuity ==
    Generic =>
        \A i \in Rows(ndf) :
            (i < Len(ndf) /\ ndf[i].symbol # ndf[i + 1].symbol)
                => ndf[i].close = ndf[i + 1].open

\* three rolls with non-zero gaps in one series
C2_Witness ==
    /\ Generic
    /\ Len(ndf) = 4
    /\ \A i \in 1..3 : ndf[i].symbol # ndf[i + 1].symbol /\ ndf[i].adjustment # 0

\* C3: in the output of near_roll, where the series switches from the front-month
\* to the second-month contract the adjusted close of the earlier row equals the
\* adjusted open of the later row.
C3_NearRollContinuity ==
    NearRolled =>
        \A i \in Rows(ndf) :
            (/\ i < Len(ndf)
             /\ ndf[i].expiry_length = 0 /\ ndf[i + 1].expiry_length = 1
             /\ ndf[i].symbol # ndf[i + 1].symbol)
                => ndf[i].close = ndf[i + 1].open

\* C4: the latest row of a non-empty output of generic_roll and of near_roll is
\* unadjusted: adjustment 0, and open, high, low, close are the selected bar's raw
\* prices.
C4_LatestRowUnadjusted ==
    (pc = "rolled" /\ Len(ndf) > 0) =>
        LET last == ndf[Len(ndf)]
            raw == SourceOf(last)
        IN  /\ last.adjustment = 0
            /\ last.open = raw.open /\ last.high = raw.high
            /\ last.low = raw.low /\ last.close = raw.close

\* near_roll: the last row is flagged as a roll day and has no next row
C4_Witness ==
    /\ NearRolled
    /\ Len(ndf) >= 2
    /\ ndf[Len(ndf)].name = ndf[Len(ndf)].contract_roll_date

\* C5: the front-month rows and the second-month rows near_roll keeps share no day,
\* and their days together are all the days with a bar of expiry length 0 or 1.
C5_NearRollCoverage ==
    NearRolled =>
        /\ DatesOf(adj_frdf_of(fdf)) \cap DatesOf(adj_sdf_of(fdf)) = {}
        /\ DatesOf(adj_frdf_of(fdf)) \cup DatesOf(adj_sdf_of(fdf))
             = {fdf[k].name : k \in {k \in Rows(fdf) : fdf[k].expiry_length \in {0, 1}}}

\* C6: the generic back-adjustment applied to a series generic_roll produced gives
\* adjustment 0 in every row and changes no open, high, low or close.
C6_ReAdjustIsIdentity ==
    pc = "readjusted" =>
        /\ Len(rdf) = Len(ndf)
        /\ \A i \in Rows(rdf) :
              /\ rdf[i].adjustment = 0
              /\ rdf[i].open = ndf[i].open /\ rdf[i].high = ndf[i].high
              /\ rdf[i].low = ndf[i].low /\ rdf[i].close = ndf[i].close

\* a series whose first pass moved prices at two rolls or more
C6_Witness ==
    /\ pc = "readjusted"
    /\ Cardinality({i \in Rows(ndf) : ndf[i].adjustment # 0}) >= 2
    /\ ndf[1].open # SourceOf(ndf[1]).open

Abs(x) == IF x < 0 THEN -x ELSE x
BarYear == arg.name.year
YearDigit == int(arg.symbol[4])
\* the years around the bar's year that end in the symbol's digit
YearsEndingIn(d) == {z \in (BarYear - 30)..(BarYear + 30) : z % 10 = d}

\* C7 as stated: no year ending in the digit is nearer to the bar's year than the
\* returned contract year.
C7_ClosestYear ==
    pc = "return" =>
        \A z \in YearsEndingIn(YearDigit) : Abs(ret - BarYear) <= Abs(z - BarYear)

\* C7 amended: the returned contract year is the smallest year not before the bar's
\* year that ends in the digit.
C7_NearestYearNotBefore ==
    pc = "return" =>
        /\ ret \in YearsEndingIn(YearDigit)
        /\ ret >= BarYear
        /\ \A z \in YearsEndingIn(YearDigit) : z >= BarYear => ret <= z

\* the digit is below the bar year's last digit: the next decade is taken
C7_Witness == pc = "return" /\ YearDigit < BarYear % 10 /\ ret > BarYear + 5

\* C8: the last digit of the returned contract year is the symbol's 4th character.
C8_LastDigitIsSymbolDigit ==
    pc = "return" => (Len(arg.symbol) = 4 /\ ret % 10 = YearDigit)

\* a bar year that is a multiple of 10, with the digit equal to its last digit
C8_Witness == pc = "return" /\ BarYear % 10 = 0 /\ YearDigit = BarYear % 10

HasBadMonthCode(t) ==
    \E i \in Rows(t) : Len(t[i].symbol) = 4 /\ t[i].symbol[3] \notin DOMAIN FUTURE_MONTH_MAP

\* C9: when a 4-character symbol of the input has no valid month code,
\* combine_features fails and no annotated table (and no series) is ever produced.
C9_BadMonthCodeFails ==
    HasBadMonthCode(df) =>
        /\ fdf = None /\ ndf = None
        /\ pc \in {"loaded", "failed"}
        /\ pc = "failed" => exc = "KeyError"

\* the bad row stands between valid rows
C9_Witness ==
    /\ pc = "failed" /\ exc = "KeyError" /\ HasBadMonthCode(df)
    /\ \E i \in 2..(Len(df) - 1) :
          /\ Len(df[i].symbol) = 4 /\ df[i].symbol[3] \notin DOMAIN FUTURE_MONTH_MAP
          /\ df[i - 1].symbol[3] \in DOMAIN FUTURE_MONTH_MAP
          /\ Len(df[i + 1].symbol) = 4 /\ df[i + 1].symbol[3] \in DOMAIN FUTURE_MONTH_MAP

\* the 3rd-from-last business day of the contract month less the offset
UnshiftedRollDate ==
    LET y == arg.row.contract_year
        m == arg.row.contract_month
        bdays == bdate_range(Date(y, m, 1), Date(y, m, DaysInMonth(y, m)))
    IN  MinusDays(bdays[Len(bdays) - 2], arg.DAYS_BEFORE_EXPIRY)

\* C10: the roll date is one day before the unshifted date when that falls on a
\* Saturday or a Sunday, and the unshifted date otherwise.
C10_WeekendMovesOneDayEarlier ==
    pc = "return" =>
        ret = IF weekday(UnshiftedRollDate) \in {5, 6}
              THEN MinusDays(UnshiftedRollDate, 1)
              ELSE UnshiftedRollDate

=============================================================================
